---- MODULE Spec2Model ----
(***************************************************************************)
(* Model of package libnetwork (network.go): the controller's network      *)
(* registry, the networks' endpoint maps and the four operations           *)
(* NewNetwork, network.Delete, network.CreateEndpoint and endpoint.Delete, *)
(* run by concurrent goroutines.  Every step between two accesses of       *)
(* shared state (a lock acquisition, a critical section up to the entry    *)
(* into a driver hook, the hook's return) is one action.                   *)
(* The bridge driver's fixed-CIDR setup and the IP allocator it uses are   *)
(* modelled next to it, driven the way the driver's tests drive them.      *)
(***************************************************************************)
EXTENDS Integers, Sequences, FiniteSets, TLC

\* ---------------------------------------------------------------- bounds
NumThreads == 2       \* goroutines calling into the package
MaxCalls == 3         \* calls into the package made in one run
MaxRequests == 2      \* calls into the IP allocator made after a bridge setup

Threads == 1..NumThreads
\* the ids generated in a run (a call generates one id at most), and the
\* id of a network that exists when the run begins
BuiltID == MaxCalls + 1
IDs == 1..BuiltID

\* ------------------------------------------------------------ input sets
\* networkType arguments: one registered driver, one unknown type.
NetworkTypes == {"simplebridge", "bogus"}
\* name arguments (not required unique).
Names == {"network1"}
\* what a driver hook may hand back.
DriverErrors == {"EBUSY", "EINVAL"}
SandboxInfos == {"sinfo1"}
\* endpoint name arguments
EndpointNames == {"Endpoint1"}

\* the driver table built by New(): enumerateDrivers() is not part of the
\* sources at hand; the package documentation names the bridge driver.
enumerateDrivers == {"simplebridge"}
drivers == enumerateDrivers

\* error values returned by the package itself (fmt.Errorf texts)
ErrUnknownDriver == "unknown driver"
ErrUnknownNetwork == "unknown network"
ErrActiveEndpoints == "has active endpoints"
ErrUnknownEndpoint == "unknown endpoint"
Panic == "panic: assignment to entry in nil map"
Nil == "nil"

VARIABLES
    networks,   \* controller.networks: network id -> *network (a Go map)
    nets,       \* heap of network structs, by reference
    eps,        \* heap of endpoint structs, by reference
    ctrlMu,     \* controller.Mutex: the set of goroutines holding it
    netMu,      \* network.Mutex of every network struct, likewise
    nextID,     \* the next id common.GenerateRandomID hands out
    ncalls,     \* calls made so far
    pc,         \* where each goroutine stands
    call,       \* the call a goroutine is in (or has last made)
    local,      \* the locals of that call: numEps, err, sinfo
    ret,        \* what the last call of a goroutine returned
    hooks,      \* driver hooks invoked by a goroutine's current (or last) call
    driverNets, \* ids for which the driver's CreateNetwork succeeded
    tornDown,   \* per id, how often a driver Delete hook succeeded on it
    br,         \* the bridgeInterface under setup: its Configuration
    links,      \* the network namespace: device name -> its state
    pools,      \* ipAllocator: CIDR string -> the pool of that range
    bpc,        \* how far the bridge setup sequence has come
    berr,       \* what the last setup step returned
    bip,        \* the last call into the allocator and what it returned
    nreq        \* calls into the allocator made so far

coreVars == <<networks, nets, eps, ctrlMu, netMu, nextID, ncalls, pc, call, local, ret,
              hooks, driverNets, tornDown>>
bridgeVars == <<br, links, pools, bpc, berr, bip, nreq>>
vars == <<coreVars, bridgeVars>>

\* ------------------------------------------------------------- Go maps
\* A Go map value: nil (alloc = FALSE) or an allocated table m.
NilMap == [alloc |-> FALSE, m |-> <<>>]
EmptyMap == [alloc |-> TRUE, m |-> <<>>]

\* len(mp): 0 for a nil map
MapLen(mp) == Cardinality(DOMAIN mp.m)
\* _, ok = mp[k]: reading a nil map yields ok = false
MapHas(mp, k) == k \in DOMAIN mp.m
\* delete(mp, k): a no-op on a nil map or an absent key
MapDelete(mp, k) == [mp EXCEPT !.m = [x \in (DOMAIN mp.m) \ {k} |-> mp.m[x]]]
\* mp[k] = v on an allocated map (on a nil map the statement panics)
MapPut(mp, k, v) ==
    [mp EXCEPT !.m = [x \in (DOMAIN mp.m) \cup {k} |-> IF x = k THEN v ELSE mp.m[x]]]

\* a network struct as NewNetwork builds it (line 121): endpoints is left
\* at its zero value, the nil map.
network(id, name, networkType) ==
    [id |-> id, name |-> name, networkType |-> networkType, endpoints |-> NilMap]

\* an endpoint struct as CreateEndpoint builds it (lines 191-193, 205)
endpoint(id, name, n, sinfo) ==
    [id |-> id, name |-> name, network |-> n, sandboxInfo |-> sinfo]

\* ----------------------------------------------------- goroutine helpers
\* (no step of package libnetwork touches the bridge driver's state: the
\* helpers that move a goroutine leave it as it is)
NoCall == [op |-> "none"]
NoLocal == [numEps |-> 0, err |-> Nil, sinfo |-> Nil]
NoRet == [op |-> "none", recv |-> {}, err |-> Nil, val |-> {}, sinfo |-> Nil]

\* the receiver of call c, as the set holding its reference: the endpoint
\* of endpoint.Delete, the network of network.Delete and CreateEndpoint,
\* nothing for NewNetwork (a method of the one controller)
Receiver(c) ==
    IF c.op = "Endpoint.Delete" THEN {c.ep}
    ELSE IF c.op \in {"Network.Delete", "CreateEndpoint"} THEN {c.n}
    ELSE {}

shared == <<networks, nets, eps, ctrlMu, netMu>>
ghost == <<driverNets, tornDown>>
counters == <<nextID, ncalls>>

\* goroutine t enters call c from label "idle" and stands at label l
Enter(t, c, l) ==
    /\ pc[t] = "idle"
    /\ ncalls < MaxCalls
    /\ ncalls' = ncalls + 1
    /\ pc' = [pc EXCEPT ![t] = l]
    /\ call' = [call EXCEPT ![t] = c]
    /\ ret' = [ret EXCEPT ![t] = NoRet]
    /\ hooks' = [hooks EXCEPT ![t] = <<>>]
    /\ UNCHANGED <<local, bridgeVars>>

\* goroutine t moves to label l
Goto(t, l) ==
    /\ pc' = [pc EXCEPT ![t] = l]
    /\ UNCHANGED <<call, ret, bridgeVars>>

\* goroutine t returns (val, sinfo, err) to its caller and is idle again;
\* val is the set holding the returned reference, empty for a nil result
Leave(t, val, sinfo, err) ==
    /\ pc' = [pc EXCEPT ![t] = "idle"]
    /\ ret' = [ret EXCEPT ![t] = [op |-> call[t].op, recv |-> Receiver(call[t]),
                                  err |-> err, val |-> val, sinfo |-> sinfo]]
    /\ call' = [call EXCEPT ![t] = NoCall]
    /\ local' = [local EXCEPT ![t] = NoLocal]
    /\ UNCHANGED bridgeVars

\* the same, from a step that is not the return of a driver hook
Return(t, val, sinfo, err) == Leave(t, val, sinfo, err) /\ UNCHANGED hooks

\* goroutine t panics: it unwinds out of the package, whatever it holds
PanicOut(t) ==
    /\ pc' = [pc EXCEPT ![t] = "panicked"]
    /\ ret' = [ret EXCEPT ![t] = [op |-> call[t].op, recv |-> Receiver(call[t]),
                                  err |-> Panic, val |-> {}, sinfo |-> Nil]]
    /\ UNCHANGED <<call, local, hooks, bridgeVars>>

\* goroutine t enters driver hook h and stands inside it, at label l
Invoke(t, h, l) ==
    /\ hooks' = [hooks EXCEPT ![t] = Append(@, [hook |-> h, res |-> "running"])]
    /\ Goto(t, l)
    /\ UNCHANGED local

\* the hook goroutine t is in hands back res (an error, nil, a result)
Handed(t, res) ==
    hooks' = [hooks EXCEPT ![t] = [@ EXCEPT ![Len(@)].res = res]]

\* what a driver hook without a result value may return
HookResults == {Nil} \cup DriverErrors

\* --------------------------------------------- controller.NewNetwork
\* lines 120-123: the call, with its arguments; the struct is built and
\* its id generated
NNStart(t) ==
    /\ \E networkType \in NetworkTypes, name \in Names :
         Enter(t, [op |-> "NewNetwork", id |-> nextID,
                   networkType |-> networkType, name |-> name], "nn_lookup")
    /\ nextID' = nextID + 1
    /\ UNCHANGED <<shared, ghost>>

\* NNLookup with the ok test dropped: the hook of whatever the table
\* yields is entered
NNLookup_Unchecked(t) ==
    /\ pc[t] = "nn_lookup"
    /\ Invoke(t, "CreateNetwork", "nn_hook")
    /\ UNCHANGED <<shared, counters, ghost>>

\* lines 125-130: d, ok := c.drivers[networkType]; with a driver found,
\* d.CreateNetwork(network.id, options) is entered
NNLookup(t) ==
    /\ pc[t] = "nn_lookup"
    /\ IF call[t].networkType \notin drivers
         THEN Return(t, {}, Nil, ErrUnknownDriver)
         ELSE Invoke(t, "CreateNetwork", "nn_hook")
    /\ UNCHANGED <<shared, counters, ghost>>

\* NNHook with the err test dropped: the network is registered whatever
\* the driver answered
NNHook_ErrIgnored(t) ==
    /\ pc[t] = "nn_hook"
    /\ \E err \in HookResults :
         /\ Goto(t, "nn_lock")
         /\ driverNets' = IF err = Nil THEN driverNets \cup {call[t].id} ELSE driverNets
         /\ Handed(t, err)
         /\ UNCHANGED local
    /\ UNCHANGED <<shared, counters, tornDown>>

\* lines 130-132: d.CreateNetwork returns; its error is returned as it is
NNHook(t) ==
    /\ pc[t] = "nn_hook"
    /\ \E err \in HookResults :
         IF err /= Nil
           THEN /\ Leave(t, {}, Nil, err)
                /\ Handed(t, err)
                /\ UNCHANGED driverNets
           ELSE /\ Goto(t, "nn_lock")
                /\ driverNets' = driverNets \cup {call[t].id}
                /\ Handed(t, Nil)
                /\ UNCHANGED local
    /\ UNCHANGED <<shared, counters, tornDown>>

\* line 134: c.Lock()
NNLock(t) ==
    /\ pc[t] = "nn_lock"
    /\ ctrlMu = {}
    /\ ctrlMu' = {t}
    /\ Goto(t, "nn_insert")
    /\ UNCHANGED <<networks, nets, eps, netMu, counters, local, hooks, ghost>>

\* lines 135-138: c.networks[network.id] = network; c.Unlock(); return.
\* The struct enters the heap here, where it becomes shared.
NNInsert(t) ==
    /\ pc[t] = "nn_insert"
    /\ LET id == call[t].id IN
         /\ nets' = (id :> network(id, call[t].name, call[t].networkType)) @@ nets
         /\ netMu' = (id :> {}) @@ netMu
         /\ networks' = MapPut(networks, id, id)
         /\ Return(t, {id}, Nil, Nil)
    /\ ctrlMu' = {}
    /\ UNCHANGED <<eps, counters, ghost>>

\* ------------------------------------------------------ network.Delete
\* line 153: the call, on a network some caller holds
NDStart(t) ==
    /\ \E n \in DOMAIN nets : Enter(t, [op |-> "Network.Delete", n |-> n], "nd_lookup")
    /\ UNCHANGED <<shared, nextID, ghost>>

\* lines 156-159: d, ok := n.ctrlr.drivers[n.networkType]
NDLookup(t) ==
    /\ pc[t] = "nd_lookup"
    /\ IF nets[call[t].n].networkType \notin drivers
         THEN Return(t, {}, Nil, ErrUnknownDriver)
         ELSE Goto(t, "nd_lock") /\ UNCHANGED <<local, hooks>>
    /\ UNCHANGED <<shared, counters, ghost>>

\* line 161: n.ctrlr.Lock()
NDLock(t) ==
    /\ pc[t] = "nd_lock"
    /\ ctrlMu = {}
    /\ ctrlMu' = {t}
    /\ Goto(t, "nd_check")
    /\ UNCHANGED <<networks, nets, eps, netMu, counters, local, hooks, ghost>>

\* NDCheck with the ok test dropped: Delete goes on for any network
NDCheck_Unchecked(t) ==
    /\ pc[t] = "nd_check"
    /\ Goto(t, "nd_nlock")
    /\ UNCHANGED <<shared, counters, local, hooks, ghost>>

\* lines 162-166: is the id still registered?
NDCheck(t) ==
    /\ pc[t] = "nd_check"
    /\ IF ~MapHas(networks, nets[call[t].n].id)
         THEN /\ ctrlMu' = {}
              /\ Return(t, {}, Nil, ErrUnknownNetwork)
         ELSE /\ Goto(t, "nd_nlock")
              /\ UNCHANGED <<ctrlMu, local, hooks>>
    /\ UNCHANGED <<networks, nets, eps, netMu, counters, ghost>>

\* line 168: n.Lock(), the controller's lock still held
NDNLock(t) ==
    /\ pc[t] = "nd_nlock"
    /\ netMu[call[t].n] = {}
    /\ netMu' = [netMu EXCEPT ![call[t].n] = {t}]
    /\ Goto(t, "nd_count")
    /\ UNCHANGED <<networks, nets, eps, ctrlMu, counters, local, hooks, ghost>>

\* lines 169-170: numEps := len(n.endpoints); n.Unlock()
NDCount(t) ==
    /\ pc[t] = "nd_count"
    /\ local' = [local EXCEPT ![t].numEps = MapLen(nets[call[t].n].endpoints)]
    /\ netMu' = [netMu EXCEPT ![call[t].n] = {}]
    /\ Goto(t, "nd_eps")
    /\ UNCHANGED <<networks, nets, eps, ctrlMu, counters, hooks, ghost>>

\* NDEps with the numEps test dropped: the network is unregistered and
\* torn down whatever endpoints it holds
NDEps_Unchecked(t) ==
    /\ pc[t] = "nd_eps"
    /\ networks' = MapDelete(networks, nets[call[t].n].id)
    /\ Invoke(t, "DeleteNetwork", "nd_hook")
    /\ ctrlMu' = {}
    /\ UNCHANGED <<nets, eps, netMu, counters, ghost>>

\* NDEps entering d.DeleteNetwork with the network still registered
NDEps_NoRemove(t) ==
    /\ pc[t] = "nd_eps"
    /\ IF local[t].numEps /= 0
         THEN Return(t, {}, Nil, ErrActiveEndpoints)
         ELSE Invoke(t, "DeleteNetwork", "nd_hook")
    /\ ctrlMu' = {}
    /\ UNCHANGED <<networks, nets, eps, netMu, counters, ghost>>

\* NDEps entering d.DeleteNetwork with the controller's lock still held
NDEps_LockAcross(t) ==
    /\ pc[t] = "nd_eps"
    /\ IF local[t].numEps /= 0
         THEN /\ Return(t, {}, Nil, ErrActiveEndpoints)
              /\ UNCHANGED networks
              /\ ctrlMu' = {}
         ELSE /\ networks' = MapDelete(networks, nets[call[t].n].id)
              /\ Invoke(t, "DeleteNetwork", "nd_hook")
              /\ UNCHANGED ctrlMu
    /\ UNCHANGED <<nets, eps, netMu, counters, ghost>>

\* lines 171-186: refuse a network with endpoints; else unregister it,
\* release the controller's lock and enter d.DeleteNetwork(n.id)
NDEps(t) ==
    /\ pc[t] = "nd_eps"
    /\ IF local[t].numEps /= 0
         THEN /\ Return(t, {}, Nil, ErrActiveEndpoints)
              /\ UNCHANGED networks
         ELSE /\ networks' = MapDelete(networks, nets[call[t].n].id)
              /\ Invoke(t, "DeleteNetwork", "nd_hook")
    /\ ctrlMu' = {}
    /\ UNCHANGED <<nets, eps, netMu, counters, ghost>>

\* lines 186-187 and 178-179: d.DeleteNetwork returns into err; with err == nil
\* the deferred function does nothing and Delete returns nil
NDHook(t) ==
    /\ pc[t] = "nd_hook"
    /\ \E err \in HookResults :
         IF err = Nil
           THEN /\ Leave(t, {}, Nil, Nil)
                /\ Handed(t, Nil)
                /\ tornDown' = [tornDown EXCEPT ![nets[call[t].n].id] = @ + 1]
           ELSE /\ local' = [local EXCEPT ![t].err = err]
                /\ Goto(t, "nd_rb_lock")
                /\ Handed(t, err)
                /\ UNCHANGED tornDown
    /\ UNCHANGED <<shared, counters, driverNets>>

\* line 180: the deferred function takes the controller's lock
NDRollbackLock(t) ==
    /\ pc[t] = "nd_rb_lock"
    /\ ctrlMu = {}
    /\ ctrlMu' = {t}
    /\ Goto(t, "nd_rb")
    /\ UNCHANGED <<networks, nets, eps, netMu, counters, local, hooks, ghost>>

\* NDRollback with the reinsertion dropped: the error is returned and the
\* network stays unregistered
NDRollback_NoReinsert(t) ==
    /\ pc[t] = "nd_rb"
    /\ ctrlMu' = {}
    /\ Return(t, {}, Nil, local[t].err)
    /\ UNCHANGED <<networks, nets, eps, netMu, counters, ghost>>

\* lines 181-183, 187: n.ctrlr.networks[n.id] = n; Unlock; return err
NDRollback(t) ==
    /\ pc[t] = "nd_rb"
    /\ networks' = MapPut(networks, nets[call[t].n].id, call[t].n)
    /\ ctrlMu' = {}
    /\ Return(t, {}, Nil, local[t].err)
    /\ UNCHANGED <<nets, eps, netMu, counters, ghost>>

\* ---------------------------------------------- network.CreateEndpoint
\* lines 190-193: the call, with its arguments; the struct is built and
\* its id generated
CEStart(t) ==
    /\ \E n \in DOMAIN nets, name \in EndpointNames :
         Enter(t, [op |-> "CreateEndpoint", n |-> n, id |-> nextID, name |-> name],
               "ce_lookup")
    /\ nextID' = nextID + 1
    /\ UNCHANGED <<shared, ghost>>

\* lines 195-200: d, ok := n.ctrlr.drivers[n.networkType]; with a driver
\* found, d.CreateEndpoint(n.id, ep.id, sboxKey, options) is entered
CELookup(t) ==
    /\ pc[t] = "ce_lookup"
    /\ IF nets[call[t].n].networkType \notin drivers
         THEN Return(t, {}, Nil, ErrUnknownDriver)
         ELSE Invoke(t, "CreateEndpoint", "ce_hook")
    /\ UNCHANGED <<shared, counters, ghost>>

\* CEHook with the err test dropped: the endpoint is inserted whatever the
\* driver answered
CEHook_ErrIgnored(t) ==
    /\ pc[t] = "ce_hook"
    /\ \E res \in DriverErrors \cup SandboxInfos :
         /\ local' = [local EXCEPT ![t].sinfo = IF res \in SandboxInfos THEN res ELSE Nil]
         /\ Goto(t, "ce_lock")
         /\ Handed(t, res)
    /\ UNCHANGED <<shared, counters, ghost>>

\* lines 200-205: d.CreateEndpoint returns an error, or the sandbox info
CEHook(t) ==
    /\ pc[t] = "ce_hook"
    /\ \/ \E err \in DriverErrors : Leave(t, {}, Nil, err) /\ Handed(t, err)
       \/ \E sinfo \in SandboxInfos :
            /\ local' = [local EXCEPT ![t].sinfo = sinfo]
            /\ Goto(t, "ce_lock")
            /\ Handed(t, sinfo)
    /\ UNCHANGED <<shared, counters, ghost>>

\* line 206: n.Lock()
CELock(t) ==
    /\ pc[t] = "ce_lock"
    /\ netMu[call[t].n] = {}
    /\ netMu' = [netMu EXCEPT ![call[t].n] = {t}]
    /\ Goto(t, "ce_insert")
    /\ UNCHANGED <<networks, nets, eps, ctrlMu, counters, local, hooks, ghost>>

\* lines 207-209: n.endpoints[ep.id] = ep; n.Unlock(); return ep, sinfo, nil.
\* The assignment panics on a nil map: the goroutine unwinds out of the
\* package with n's lock held (the Unlock is not deferred).
CEInsert(t) ==
    /\ pc[t] = "ce_insert"
    /\ LET n == call[t].n
           id == call[t].id
       IN IF ~nets[n].endpoints.alloc
            THEN /\ PanicOut(t)
                 /\ UNCHANGED <<nets, eps, netMu>>
            ELSE /\ eps' = (id :> endpoint(id, call[t].name, n, local[t].sinfo)) @@ eps
                 /\ nets' = [nets EXCEPT ![n].endpoints = MapPut(@, id, id)]
                 /\ netMu' = [netMu EXCEPT ![n] = {}]
                 /\ Return(t, {id}, local[t].sinfo, Nil)
    /\ UNCHANGED <<networks, ctrlMu, counters, ghost>>

\* ----------------------------------------------------- endpoint.Delete
\* line 212: the call, on an endpoint some caller holds
EDStart(t) ==
    /\ \E ep \in DOMAIN eps :
         Enter(t, [op |-> "Endpoint.Delete", ep |-> ep, n |-> eps[ep].network],
               "ed_lookup")
    /\ UNCHANGED <<shared, nextID, ghost>>

\* lines 215-220: d, ok := ep.network.ctrlr.drivers[ep.network.networkType]
EDLookup(t) ==
    /\ pc[t] = "ed_lookup"
    /\ IF nets[call[t].n].networkType \notin drivers
         THEN Return(t, {}, Nil, ErrUnknownDriver)
         ELSE Goto(t, "ed_lock") /\ UNCHANGED <<local, hooks>>
    /\ UNCHANGED <<shared, counters, ghost>>

\* line 221: n.Lock()
EDLock(t) ==
    /\ pc[t] = "ed_lock"
    /\ netMu[call[t].n] = {}
    /\ netMu' = [netMu EXCEPT ![call[t].n] = {t}]
    /\ Goto(t, "ed_check")
    /\ UNCHANGED <<networks, nets, eps, ctrlMu, counters, local, hooks, ghost>>

\* EDCheck entering d.DeleteEndpoint with the endpoint still in the map
EDCheck_NoRemove(t) ==
    /\ pc[t] = "ed_check"
    /\ IF ~MapHas(nets[call[t].n].endpoints, eps[call[t].ep].id)
         THEN Return(t, {}, Nil, ErrUnknownEndpoint)
         ELSE Invoke(t, "DeleteEndpoint", "ed_hook")
    /\ netMu' = [netMu EXCEPT ![call[t].n] = {}]
    /\ UNCHANGED <<networks, nets, eps, ctrlMu, counters, ghost>>

\* EDCheck with the ok test dropped: Delete goes on for any endpoint
EDCheck_Unchecked(t) ==
    /\ pc[t] = "ed_check"
    /\ nets' = [nets EXCEPT ![call[t].n].endpoints = MapDelete(@, eps[call[t].ep].id)]
    /\ Invoke(t, "DeleteEndpoint", "ed_hook")
    /\ netMu' = [netMu EXCEPT ![call[t].n] = {}]
    /\ UNCHANGED <<networks, eps, ctrlMu, counters, ghost>>

\* lines 222-238: is the id still in the map? if so remove it, release
\* n's lock and enter d.DeleteEndpoint(n.id, ep.id)
EDCheck(t) ==
    /\ pc[t] = "ed_check"
    /\ LET n == call[t].n
           id == eps[call[t].ep].id
       IN IF ~MapHas(nets[n].endpoints, id)
            THEN /\ Return(t, {}, Nil, ErrUnknownEndpoint)
                 /\ UNCHANGED nets
            ELSE /\ nets' = [nets EXCEPT ![n].endpoints = MapDelete(@, id)]
                 /\ Invoke(t, "DeleteEndpoint", "ed_hook")
    /\ netMu' = [netMu EXCEPT ![call[t].n] = {}]
    /\ UNCHANGED <<networks, eps, ctrlMu, counters, ghost>>

\* lines 238-239 and 230-231: d.DeleteEndpoint returns into err; with err == nil
\* the deferred function does nothing and Delete returns nil
EDHook(t) ==
    /\ pc[t] = "ed_hook"
    /\ \E err \in HookResults :
         IF err = Nil
           THEN /\ Leave(t, {}, Nil, Nil)
                /\ Handed(t, Nil)
                /\ tornDown' = [tornDown EXCEPT ![eps[call[t].ep].id] = @ + 1]
           ELSE /\ local' = [local EXCEPT ![t].err = err]
                /\ Goto(t, "ed_rb_lock")
                /\ Handed(t, err)
                /\ UNCHANGED tornDown
    /\ UNCHANGED <<shared, counters, driverNets>>

\* line 232: the deferred function takes n's lock
EDRollbackLock(t) ==
    /\ pc[t] = "ed_rb_lock"
    /\ netMu[call[t].n] = {}
    /\ netMu' = [netMu EXCEPT ![call[t].n] = {t}]
    /\ Goto(t, "ed_rb")
    /\ UNCHANGED <<networks, nets, eps, ctrlMu, counters, local, hooks, ghost>>

\* EDRollback reinserting under the network's id instead of the
\* endpoint's
EDRollback_WrongKey(t) ==
    /\ pc[t] = "ed_rb"
    /\ LET n == call[t].n
           ep == call[t].ep
       IN /\ nets' = [nets EXCEPT ![n].endpoints = MapPut(@, nets[n].id, ep)]
          /\ netMu' = [netMu EXCEPT ![n] = {}]
          /\ Return(t, {}, Nil, local[t].err)
    /\ UNCHANGED <<networks, eps, ctrlMu, counters, ghost>>

\* lines 233-235, 239: n.endpoints[ep.id] = ep; n.Unlock(); return err
EDRollback(t) ==
    /\ pc[t] = "ed_rb"
    /\ LET n == call[t].n
           ep == call[t].ep
       IN IF ~nets[n].endpoints.alloc
            THEN /\ PanicOut(t)
                 /\ UNCHANGED <<nets, netMu>>
            ELSE /\ nets' = [nets EXCEPT ![n].endpoints = MapPut(@, eps[ep].id, ep)]
                 /\ netMu' = [netMu EXCEPT ![n] = {}]
                 /\ Return(t, {}, Nil, local[t].err)
    /\ UNCHANGED <<networks, eps, ctrlMu, counters, ghost>>

\* ------------------------------------------------------- IPv4 arithmetic
\* An IPv4 address is its four octets; a net.IPNet is [IP, Ones], the
\* address and the number of leading ones of its mask.
Pow2(k) == 2 ^ k
Min(a, b) == IF a < b THEN a ELSE b
Max(a, b) == IF a > b THEN a ELSE b
\* how many of the mask's ones fall into octet i
MaskBits(ones, i) == Max(0, Min(8, ones - 8 * (i - 1)))
MaskOctet(o, bits) == (o \div Pow2(8 - bits)) * Pow2(8 - bits)
\* ip.Mask(net.CIDRMask(ones, 32)): the network address
Mask(ip, ones) ==
    <<MaskOctet(ip[1], MaskBits(ones, 1)), MaskOctet(ip[2], MaskBits(ones, 2)),
      MaskOctet(ip[3], MaskBits(ones, 3)), MaskOctet(ip[4], MaskBits(ones, 4))>>
HostOctet(o, bits) == MaskOctet(o, bits) + Pow2(8 - bits) - 1
\* the last address of the range, its broadcast address
Broadcast(ip, ones) ==
    <<HostOctet(ip[1], MaskBits(ones, 1)), HostOctet(ip[2], MaskBits(ones, 2)),
      HostOctet(ip[3], MaskBits(ones, 3)), HostOctet(ip[4], MaskBits(ones, 4))>>
\* the address after ip, in 32 bits
Inc(ip) ==
    IF ip[4] < 255 THEN <<ip[1], ip[2], ip[3], ip[4] + 1>>
    ELSE IF ip[3] < 255 THEN <<ip[1], ip[2], ip[3] + 1, 0>>
    ELSE IF ip[2] < 255 THEN <<ip[1], ip[2] + 1, 0, 0>>
    ELSE <<(ip[1] + 1) % 256, 0, 0, 0>>
\* a < b as 32-bit numbers
Less(a, b) ==
    \E i \in 1..4 : a[i] < b[i] /\ \A j \in 1..(i - 1) : a[j] = b[j]
\* ip.String(): the dotted decimal form
String(ip) ==
    ToString(ip[1]) \o "." \o ToString(ip[2]) \o "." \o ToString(ip[3]) \o "."
    \o ToString(ip[4])
\* the CIDR string of a range, the key of its pool
CIDRString(c) == String(c.IP) \o "/" \o ToString(c.Ones)
\* the network address of range c, and its first usable address
NetworkAddress(c) == Mask(c.IP, c.Ones)
FirstUsable(c) == Inc(NetworkAddress(c))
\* range c holds address ip
Contains(c, ip) == Mask(ip, c.Ones) = NetworkAddress(c)
\* range sub is a sub-range of the network of address prim: its mask is at
\* least as specific and its addresses lie in that network
SubRange(sub, prim) == sub.Ones >= prim.Ones /\ Contains(prim, sub.IP)

\* ------------------------------------------------ bridge configurations
DefaultBridgeName == "docker0"
\* AddressIPv4 of the configurations set up
PrimaryAddresses ==
    {[IP |-> <<192, 168, 1, 1>>, Ones |-> 16], [IP |-> <<192, 168, 1, 1>>, Ones |-> 24]}
\* FixedCIDR of the configurations set up: ranges inside and outside the
\* primary networks, one not given by its network address, the smallest ones
FixedCIDRs ==
    {[IP |-> <<192, 168, 2, 0>>, Ones |-> 24], [IP |-> <<192, 168, 2, 77>>, Ones |-> 24],
     [IP |-> <<192, 168, 1, 0>>, Ones |-> 24], [IP |-> <<192, 168, 0, 0>>, Ones |-> 16],
     [IP |-> <<192, 168, 2, 4>>, Ones |-> 30], [IP |-> <<192, 168, 2, 4>>, Ones |-> 31],
     [IP |-> <<192, 168, 2, 4>>, Ones |-> 32], [IP |-> <<10, 1, 2, 0>>, Ones |-> 24]}
Configuration(addr, fixed) ==
    [BridgeName |-> DefaultBridgeName, AddressIPv4 |-> addr, FixedCIDR |-> fixed]
\* the configurations of TestSetupFixedCIDRv4 and TestSetupBadFixedCIDRv4
ScenarioA ==
    Configuration([IP |-> <<192, 168, 1, 1>>, Ones |-> 16],
                  [IP |-> <<192, 168, 2, 0>>, Ones |-> 24])
ScenarioB ==
    Configuration([IP |-> <<192, 168, 1, 1>>, Ones |-> 24],
                  [IP |-> <<192, 168, 2, 0>>, Ones |-> 24])

\* errors of the bridge driver and of the allocator
ErrInvalidFixedCIDR == "InvalidFixedCIDR"
ErrPoolExhausted == "PoolExhausted"
ErrAddressNotInPool == "AddressNotInPool"

\* ---------------------------------------------------------- IP allocator
\* a pool as its first use creates it: every address of the range free
NewPool(c) == [cidr |-> c, used |-> {}]
\* the pools with the pool of range c created if it is not there yet
WithPool(ps, c) ==
    IF CIDRString(c) \in DOMAIN ps THEN ps ELSE (CIDRString(c) :> NewPool(c)) @@ ps
\* an address of range c a pool can hand out: strictly between the network
\* address and the broadcast address
Usable(c, ip) ==
    Less(NetworkAddress(c), ip) /\ Less(ip, Broadcast(c.IP, c.Ones))
\* the lowest free address of range c from ip on, as a set: empty when
\* none is left
RECURSIVE LowestFree(_, _, _)
LowestFree(c, ip, used) ==
    IF ~Usable(c, ip) THEN {}
    ELSE IF ip \notin used THEN {ip}
    ELSE LowestFree(c, Inc(ip), used)

NoRequest == [op |-> "none", preferred |-> {}, ip |-> {}, err |-> Nil]
\* the preferred addresses asked for, and the addresses released
Preferred(c) == {FirstUsable(c), Inc(FirstUsable(c)), <<10, 0, 0, 9>>}

\* RequestIP marking nothing in use
RequestIP_NoMark ==
    /\ bpc = "fixed"
    /\ nreq < MaxRequests
    /\ nreq' = nreq + 1
    /\ LET c == br.Config.FixedCIDR
           ps == WithPool(pools, c)
           free == LowestFree(c, FirstUsable(c), ps[CIDRString(c)].used)
       IN /\ pools' = ps
          /\ bip' = IF free = {}
                      THEN [op |-> "RequestIP", preferred |-> {}, ip |-> {},
                            err |-> ErrPoolExhausted]
                      ELSE [op |-> "RequestIP", preferred |-> {}, ip |-> free,
                            err |-> Nil]
    /\ UNCHANGED <<br, links, bpc, berr, coreVars>>

\* ipAllocator.RequestIP(br.Config.FixedCIDR, preferred): with no preferred
\* address the lowest free address after the network address, else the
\* preferred one if the range holds it and it is free; the address handed
\* out is marked in use. The pool is created on the first use of the range.
RequestIP ==
    /\ bpc = "fixed"
    /\ nreq < MaxRequests
    /\ nreq' = nreq + 1
    /\ LET c == br.Config.FixedCIDR
           key == CIDRString(c)
           ps == WithPool(pools, c)
           used == ps[key].used
           free == LowestFree(c, FirstUsable(c), used)
       IN \/ /\ free = {}
             /\ pools' = ps
             /\ bip' = [op |-> "RequestIP", preferred |-> {}, ip |-> {},
                        err |-> ErrPoolExhausted]
          \/ /\ free /= {}
             /\ pools' = [ps EXCEPT ![key].used = used \cup free]
             /\ bip' = [op |-> "RequestIP", preferred |-> {}, ip |-> free, err |-> Nil]
          \/ \E p \in Preferred(c) :
               IF Usable(c, p) /\ Contains(c, p) /\ p \notin used
                 THEN /\ pools' = [ps EXCEPT ![key].used = used \cup {p}]
                      /\ bip' = [op |-> "RequestIP", preferred |-> {p}, ip |-> {p},
                                 err |-> Nil]
                 ELSE /\ pools' = ps
                      /\ bip' = [op |-> "RequestIP", preferred |-> {p}, ip |-> {},
                                 err |-> ErrAddressNotInPool]
    /\ UNCHANGED <<br, links, bpc, berr, coreVars>>

\* ipAllocator.ReleaseIP(br.Config.FixedCIDR, ip): the address is free
\* again; nothing happens for an address that was not handed out
ReleaseIP ==
    /\ bpc = "fixed"
    /\ nreq < MaxRequests
    /\ nreq' = nreq + 1
    /\ LET c == br.Config.FixedCIDR
           key == CIDRString(c)
       IN \E ip \in Preferred(c) :
            /\ pools' = IF key \in DOMAIN pools
                          THEN [pools EXCEPT ![key].used = @ \ {ip}]
                          ELSE pools
            /\ bip' = [op |-> "ReleaseIP", preferred |-> {ip}, ip |-> {}, err |-> Nil]
    /\ UNCHANGED <<br, links, bpc, berr, coreVars>>

\* ---------------------------------------------------- bridge driver setup
\* step 1: the bridge device exists (created if absent) and is up
setupDevice ==
    /\ bpc = "new"
    /\ LET name == br.Config.BridgeName
       IN links' = IF name \in DOMAIN links
                     THEN [links EXCEPT ![name].up = TRUE]
                     ELSE (name :> [up |-> TRUE, addrv4 |-> {}]) @@ links
    /\ berr' = Nil
    /\ bpc' = "device"
    /\ UNCHANGED <<br, pools, bip, nreq, coreVars>>

\* step 2: the configured IPv4 address is the device's address, in place
\* of any it had
setupBridgeIPv4 ==
    /\ bpc = "device"
    /\ links' = [links EXCEPT ![br.Config.BridgeName].addrv4 = {br.Config.AddressIPv4}]
    /\ berr' = Nil
    /\ bpc' = "ipv4"
    /\ UNCHANGED <<br, pools, bip, nreq, coreVars>>

\* setupFixedCIDRv4 registering any range
setupFixedCIDRv4_Unchecked ==
    /\ bpc = "ipv4"
    /\ pools' = WithPool(pools, br.Config.FixedCIDR)
    /\ berr' = Nil
    /\ bpc' = "fixed"
    /\ UNCHANGED <<br, links, bip, nreq, coreVars>>

\* setupFixedCIDRv4 marking the range's first usable address in use
setupFixedCIDRv4_Reserving ==
    /\ bpc = "ipv4"
    /\ LET c == br.Config.FixedCIDR
       IN IF ~SubRange(c, br.Config.AddressIPv4)
            THEN /\ berr' = ErrInvalidFixedCIDR
                 /\ bpc' = "failed"
                 /\ UNCHANGED pools
            ELSE /\ pools' = [WithPool(pools, c) EXCEPT
                                ![CIDRString(c)].used = @ \cup {FirstUsable(c)}]
                 /\ berr' = Nil
                 /\ bpc' = "fixed"
    /\ UNCHANGED <<br, links, bip, nreq, coreVars>>

\* step 3: the fixed-CIDR range is registered with the allocator, unless
\* it is no sub-range of the network of the primary address. The range is
\* registered with its first usable address free: the request that follows
\* the setup in TestSetupFixedCIDRv4 is handed that address.
setupFixedCIDRv4 ==
    /\ bpc = "ipv4"
    /\ LET c == br.Config.FixedCIDR
       IN IF ~SubRange(c, br.Config.AddressIPv4)
            THEN /\ berr' = ErrInvalidFixedCIDR
                 /\ bpc' = "failed"
                 /\ UNCHANGED pools
            ELSE /\ pools' = WithPool(pools, c)
                 /\ berr' = Nil
                 /\ bpc' = "fixed"
    /\ UNCHANGED <<br, links, bip, nreq, coreVars>>

\* ------------------------------------------------------ initial states
\* New() (lines 114-116): an empty registry, the built-in drivers, no
\* network or endpoint yet, both kinds of lock free, every goroutine idle.
New ==
    /\ networks = EmptyMap
    /\ nets = <<>>
    /\ eps = <<>>
    /\ netMu = <<>>
    /\ nextID = 1
    /\ driverNets = {}

Idle ==
    /\ ctrlMu = {}
    /\ pc = [t \in Threads |-> "idle"]
    /\ call = [t \in Threads |-> NoCall]
    /\ local = [t \in Threads |-> NoLocal]
    /\ ret = [t \in Threads |-> NoRet]
    /\ hooks = [t \in Threads |-> <<>>]
    /\ tornDown = [i \in IDs |-> 0]
    /\ ncalls = 0

\* no bridge is being set up
NoBridge ==
    /\ br = [Config |-> ScenarioA]
    /\ links = <<>>
    /\ pools = <<>>
    /\ bpc = "none"
    /\ berr = Nil
    /\ bip = NoRequest
    /\ nreq = 0

\* a bridgeInterface with its Configuration, in a fresh network namespace
\* (netutils.SetupTestNetNS) and with no pool in the allocator
NewBridge ==
    /\ \E addr \in PrimaryAddresses, fixed \in FixedCIDRs :
         br = [Config |-> Configuration(addr, fixed)]
    /\ links = <<>>
    /\ pools = <<>>
    /\ bpc = "new"
    /\ berr = Nil
    /\ bip = NoRequest
    /\ nreq = 0

InitNew == New /\ Idle /\ NoBridge

\* A controller holding one registered network whose endpoint map is an
\* allocated, empty map: the network struct (lines 96-103) with every
\* field set, as code inside the package can build it.
Built ==
    /\ networks = MapPut(EmptyMap, BuiltID, BuiltID)
    /\ nets = (BuiltID :> [network(BuiltID, "network1", "simplebridge") EXCEPT
                             !.endpoints = EmptyMap])
    /\ eps = <<>>
    /\ netMu = (BuiltID :> {})
    /\ nextID = 1
    /\ driverNets = {BuiltID}

\* The receivers of the calls are drawn from the fresh controller and from
\* the controller with a built network.
Init == (New \/ Built) /\ Idle /\ NoBridge

\* ---------------------------------------------------------------- steps
NewNetwork(t) ==
    NNStart(t) \/ NNLookup(t) \/ NNHook(t) \/ NNLock(t) \/ NNInsert(t)

NetworkDelete(t) ==
    \/ NDStart(t) \/ NDLookup(t) \/ NDLock(t) \/ NDCheck(t) \/ NDNLock(t) \/ NDCount(t)
    \/ NDEps(t) \/ NDHook(t) \/ NDRollbackLock(t) \/ NDRollback(t)

CreateEndpoint(t) ==
    CEStart(t) \/ CELookup(t) \/ CEHook(t) \/ CELock(t) \/ CEInsert(t)

EndpointDelete(t) ==
    \/ EDStart(t) \/ EDLookup(t) \/ EDLock(t) \/ EDCheck(t) \/ EDHook(t)
    \/ EDRollbackLock(t) \/ EDRollback(t)

Next == \E t \in Threads :
    NewNetwork(t) \/ NetworkDelete(t) \/ CreateEndpoint(t) \/ EndpointDelete(t)

Spec == Init /\ [][Next]_vars

\* What the exported API alone can do from New(): no endpoint is ever
\* returned by CreateEndpoint there, so no endpoint.Delete can be called.
NextNew == \E t \in Threads : NewNetwork(t) \/ NetworkDelete(t) \/ CreateEndpoint(t)

SpecNew == InitNew /\ [][NextNew]_vars

\* The bridge driver's setup sequence on one configuration, followed by
\* calls into the allocator on the fixed-CIDR range, as the driver's tests
\* run them.
InitBridge == New /\ Idle /\ NewBridge

NextBridge == setupDevice \/ setupBridgeIPv4 \/ setupFixedCIDRv4 \/ RequestIP \/ ReleaseIP

SpecBridge == InitBridge /\ [][NextBridge]_vars

\* ================================================================ claims
\* goroutine t takes a step
Steps(t) == pc'[t] /= pc[t]
\* goroutine t takes the step that returns err to its caller
ReturnsErr(t, err) == pc'[t] = "idle" /\ ret'[t].err = err
\* what the driver hook of t's call handed back
HookResult(t) == hooks[t][Len(hooks[t])].res
\* the labels of a call
NDLabels ==
    {"nd_lookup", "nd_lock", "nd_check", "nd_nlock", "nd_count", "nd_eps",
     "nd_hook", "nd_rb_lock", "nd_rb"}
EDLabels == {"ed_lookup", "ed_lock", "ed_check", "ed_hook", "ed_rb_lock", "ed_rb"}
\* network n is registered under its id, as itself
Registered(n) == MapHas(networks, nets[n].id) /\ networks.m[nets[n].id] = n
\* endpoint ep is in its network's endpoint map under its id, as itself
Attached(ep) ==
    /\ MapHas(nets[eps[ep].network].endpoints, eps[ep].id)
    /\ nets[eps[ep].network].endpoints.m[eps[ep].id] = ep

\* C1: a network.Delete that finds the endpoint map of its (registered)
\* network non-empty returns the "has active endpoints" error; no step of
\* that call changes the registry or any network's endpoint map, the network
\* is registered when the call returns, and the call invokes no driver hook.
C1_ActiveEndpointsRefused ==
    [][\A t \in Threads :
         /\ (pc[t] = "nd_count" /\ Steps(t) /\ MapLen(nets[call[t].n].endpoints) /= 0)
              => (pc'[t] = "nd_eps" /\ local'[t].numEps /= 0)
         /\ (pc[t] = "nd_eps" /\ Steps(t) /\ local[t].numEps /= 0)
              => /\ ReturnsErr(t, ErrActiveEndpoints)
                 /\ hooks[t] = <<>>
                 /\ \A n \in {call[t].n} : Registered(n)'
                 /\ networks' = networks
                 /\ nets' = nets
                 /\ tornDown' = tornDown
         /\ (pc[t] \in {"nd_lookup", "nd_lock", "nd_check", "nd_nlock", "nd_count"}
             /\ Steps(t))
              => (networks' = networks /\ nets' = nets /\ hooks'[t] = <<>>)
    ]_vars

\* C1 witness: a network.Delete has returned the error for a registered
\* network that holds an endpoint.
C1_Witness ==
    \E t \in Threads : \E n \in ret[t].recv :
        /\ ret[t].op = "Network.Delete"
        /\ ret[t].err = ErrActiveEndpoints
        /\ MapLen(nets[n].endpoints) > 0
        /\ Registered(n)

\* C2: when d.DeleteNetwork fails during network.Delete, the call returns
\* only after the registry again maps the network's id to the same network
\* struct; the struct itself (id, name, type, endpoint map) is not touched by
\* any step of the call, and the error returned is the one the driver gave.
C2_NetworkRollbackExact ==
    [][\A t \in Threads :
         /\ (pc[t] = "nd_hook" /\ Steps(t))
              => \/ /\ ReturnsErr(t, Nil)
                    /\ HookResult(t)' = Nil
                    /\ tornDown'[nets[call[t].n].id] = tornDown[nets[call[t].n].id] + 1
                 \/ /\ pc'[t] = "nd_rb_lock"
                    /\ HookResult(t)' \in DriverErrors
                    /\ tornDown' = tornDown
         /\ (pc[t] = "nd_rb_lock" /\ Steps(t)) => pc'[t] = "nd_rb"
         /\ (pc[t] = "nd_rb" /\ Steps(t))
              => /\ HookResult(t) \in DriverErrors
                 /\ ReturnsErr(t, HookResult(t))
                 /\ \A n \in {call[t].n} : Registered(n)'
                 /\ \A k \in DOMAIN networks.m :
                      k \in DOMAIN networks'.m /\ networks'.m[k] = networks.m[k]
         /\ (pc[t] \in NDLabels /\ Steps(t)) => nets' = nets
    ]_vars

\* C2 witness: a network.Delete has returned the driver's error and its
\* network is registered, with the driver having torn nothing down.
C2_Witness ==
    \E t \in Threads : \E n \in ret[t].recv :
        /\ ret[t].op = "Network.Delete"
        /\ ret[t].err \in DriverErrors
        /\ Registered(n)
        /\ tornDown[nets[n].id] = 0

\* C3: when d.DeleteEndpoint fails during endpoint.Delete, the call returns
\* only after the network's endpoint map again maps the endpoint's id to the
\* same endpoint struct, the error returned is the driver's, and no step of
\* the call changes another entry of that map, another network or an
\* endpoint struct.
C3_EndpointRollbackExact ==
    [][\A t \in Threads :
         /\ (pc[t] = "ed_hook" /\ Steps(t))
              => \/ /\ ReturnsErr(t, Nil)
                    /\ HookResult(t)' = Nil
                    /\ tornDown'[eps[call[t].ep].id] = tornDown[eps[call[t].ep].id] + 1
                 \/ /\ pc'[t] = "ed_rb_lock"
                    /\ HookResult(t)' \in DriverErrors
                    /\ tornDown' = tornDown
         /\ (pc[t] = "ed_rb_lock" /\ Steps(t)) => pc'[t] = "ed_rb"
         /\ (pc[t] = "ed_rb" /\ Steps(t))
              => /\ HookResult(t) \in DriverErrors
                 /\ ReturnsErr(t, HookResult(t))
                 /\ \A ep \in {call[t].ep} : Attached(ep)'
         /\ (pc[t] \in EDLabels /\ Steps(t))
              => /\ eps' = eps
                 /\ \A n \in DOMAIN nets :
                      /\ nets'[n].endpoints.alloc = nets[n].endpoints.alloc
                      /\ \A k \in (DOMAIN nets[n].endpoints.m
                                   \cup DOMAIN nets'[n].endpoints.m) :
                           (n /= call[t].n \/ k /= eps[call[t].ep].id)
                             => /\ k \in DOMAIN nets[n].endpoints.m
                                /\ k \in DOMAIN nets'[n].endpoints.m
                                /\ nets'[n].endpoints.m[k] = nets[n].endpoints.m[k]
    ]_vars

\* C3 witness: an endpoint.Delete has returned the driver's error, its
\* endpoint is back in the map and the map holds another endpoint as well.
C3_Witness ==
    \E t \in Threads : \E ep \in ret[t].recv :
        /\ ret[t].op = "Endpoint.Delete"
        /\ ret[t].err \in DriverErrors
        /\ Attached(ep)
        /\ MapLen(nets[eps[ep].network].endpoints) > 1

\* C4: a CreateEndpoint on a network returned by NewNetwork, once its
\* driver hook has handed back the sandbox info, completes normally: it
\* returns the new endpoint with that sandbox info and the endpoint's id is
\* a key of the network's endpoint map.
C4_CreateEndpointCompletes ==
    [][\A t \in Threads :
         (pc[t] = "ce_insert" /\ Steps(t))
           => /\ ReturnsErr(t, Nil)
              /\ ret'[t].val = {call[t].id}
              /\ ret'[t].sinfo = HookResult(t)
              /\ MapHas(nets'[call[t].n].endpoints, call[t].id)
    ]_vars

\* goroutine t has ended a CreateEndpoint on network n whose driver hook
\* succeeded
CreatedOn(t, n) ==
    /\ pc[t] \in {"idle", "panicked"}
    /\ ret[t].op = "CreateEndpoint"
    /\ ret[t].recv = {n}
    /\ ret[t].err \notin DriverErrors \cup {ErrUnknownDriver}

\* goroutine t is in, or has ended, a CreateEndpoint on network n
CreatingOn(t, n) ==
    \/ pc[t] \in {"ce_lookup", "ce_hook", "ce_lock", "ce_insert"} /\ call[t].n = n
    \/ CreatedOn(t, n)

\* C5: of the CreateEndpoint calls goroutines make concurrently on one
\* network, each whose driver hook succeeded has returned an endpoint whose
\* id is in the network's endpoint map, and two of them have returned
\* different ids.
C5_NoLostInsertion ==
    \A n \in DOMAIN nets : \A t1, t2 \in Threads :
        (t1 /= t2 /\ CreatedOn(t1, n) /\ CreatingOn(t2, n))
          => /\ ret[t1].err = Nil
             /\ ret[t1].val /= {}
             /\ ret[t1].val \subseteq DOMAIN nets[n].endpoints.m
             /\ CreatedOn(t2, n) => ret[t1].val /= ret[t2].val

C7_RegisteredAfterDriverSuccess ==
    /\ [](\A k \in DOMAIN networks.m : k \in driverNets)
    /\ [][\A t \in Threads :
            /\ (pc[t] = "nn_hook" /\ Steps(t))
                 => \/ /\ HookResult(t)' \in DriverErrors
                       /\ ReturnsErr(t, HookResult(t)')
                       /\ ret'[t].val = {}
                       /\ driverNets' = driverNets
                    \/ /\ HookResult(t)' = Nil
                       /\ pc'[t] = "nn_lock"
                       /\ call[t].id \in driverNets'
            /\ (pc[t] \in {"nn_lookup", "nn_hook", "nn_lock"} /\ Steps(t))
                 => networks' = networks
            /\ (pc[t] = "nn_insert" /\ Steps(t))
                 => /\ HookResult(t) = Nil
                    /\ ReturnsErr(t, Nil)
                    /\ ret'[t].val = {call[t].id}
                    /\ \A n \in {call[t].id} : Registered(n)'
      ]_vars

\* C7 witness: one NewNetwork has returned a network, now registered, and
\* another has returned the driver's error.
C7_Witness ==
    \E t1, t2 \in Threads : \E n \in ret[t1].val :
        /\ ret[t1].op = "NewNetwork" /\ ret[t1].err = Nil /\ Registered(n)
        /\ ret[t2].op = "NewNetwork" /\ ret[t2].err \in DriverErrors
        /\ ret[t2].err = HookResult(t2)

\* C8: NewNetwork with a networkType the driver table does not hold returns
\* the unknown-driver error; the call invokes no driver hook and leaves the
\* registry as it was.
C8_UnknownDriverRefused ==
    [][\A t \in Threads :
         (pc[t] = "nn_lookup" /\ Steps(t) /\ call[t].networkType \notin drivers)
           => /\ ReturnsErr(t, ErrUnknownDriver)
              /\ ret'[t].val = {}
              /\ hooks'[t] = <<>>
              /\ networks' = networks
              /\ nets' = nets
              /\ driverNets' = driverNets
    ]_vars

\* C8 witness: a NewNetwork has returned the unknown-driver error.
C8_Witness ==
    \E t \in Threads :
        /\ ret[t].op = "NewNetwork"
        /\ ret[t].err = ErrUnknownDriver
        /\ hooks[t] = <<>>

\* C9: a network.Delete that finds its network's id absent from the
\* registry returns the unknown-network error, invokes no driver hook and
\* leaves the registry and the endpoint maps as they were; no network is
\* torn down by the driver twice.
C9_UnknownNetworkRefused ==
    /\ [](\A n \in DOMAIN nets : tornDown[nets[n].id] <= 1)
    /\ [][\A t \in Threads :
            (pc[t] = "nd_check" /\ Steps(t) /\ ~MapHas(networks, nets[call[t].n].id))
              => /\ ReturnsErr(t, ErrUnknownNetwork)
                 /\ hooks'[t] = <<>>
                 /\ networks' = networks
                 /\ nets' = nets
                 /\ tornDown' = tornDown
      ]_vars

\* C9 witness: after a Delete of the network succeeded, a second Delete has
\* returned the unknown-network error.
C9_Witness ==
    \E t \in Threads : \E n \in ret[t].recv :
        /\ ret[t].op = "Network.Delete"
        /\ ret[t].err = ErrUnknownNetwork
        /\ ~MapHas(networks, nets[n].id)
        /\ tornDown[nets[n].id] = 1

\* C10: an endpoint.Delete that finds its endpoint's id absent from the
\* network's endpoint map returns the unknown-endpoint error, invokes no
\* driver hook and leaves the endpoint maps as they were.
C10_UnknownEndpointRefused ==
    [][\A t \in Threads :
         (pc[t] = "ed_check" /\ Steps(t)
          /\ ~MapHas(nets[call[t].n].endpoints, eps[call[t].ep].id))
           => /\ ReturnsErr(t, ErrUnknownEndpoint)
              /\ hooks'[t] = <<>>
              /\ nets' = nets
              /\ eps' = eps
              /\ networks' = networks
              /\ tornDown' = tornDown
    ]_vars

\* C10 witness: after a Delete of the endpoint succeeded, a second Delete
\* has returned the unknown-endpoint error.
C10_Witness ==
    \E t \in Threads : \E ep \in ret[t].recv :
        /\ ret[t].op = "Endpoint.Delete"
        /\ ret[t].err = ErrUnknownEndpoint
        /\ ~MapHas(nets[eps[ep].network].endpoints, eps[ep].id)
        /\ tornDown[eps[ep].id] = 1

\* C11: when d.CreateEndpoint hands back an error, CreateEndpoint returns
\* that error with a nil endpoint and a nil sandbox info, and no step of the
\* call has changed an endpoint map, an endpoint struct or the registry.
C11_CreateEndpointErrorVerbatim ==
    [][\A t \in Threads :
         /\ (pc[t] = "ce_hook" /\ Steps(t) /\ HookResult(t)' \in DriverErrors)
              => /\ ReturnsErr(t, HookResult(t)')
                 /\ ret'[t].val = {}
                 /\ ret'[t].sinfo = Nil
         /\ (pc[t] \in {"ce_lookup", "ce_hook"} /\ Steps(t))
              => (nets' = nets /\ eps' = eps /\ networks' = networks)
    ]_vars

\* C11 witness: a CreateEndpoint on a registered network that holds an
\* endpoint has returned the driver's error.
C11_Witness ==
    \E t \in Threads : \E n \in ret[t].recv :
        /\ ret[t].op = "CreateEndpoint"
        /\ ret[t].err \in DriverErrors
        /\ ret[t].err = HookResult(t)
        /\ ret[t].val = {}
        /\ Registered(n)
        /\ MapLen(nets[n].endpoints) > 0

\* the fixed-CIDR range of configuration cfg lies inside the network of its
\* primary IPv4 address
Inside(cfg) == SubRange(cfg.FixedCIDR, cfg.AddressIPv4)
\* the step is the first call into the allocator after the setup, a
\* RequestIP with no preferred address
FirstRequest ==
    bpc = "fixed" /\ nreq = 0 /\ nreq' = 1 /\ bip'.op = "RequestIP" /\ bip'.preferred = {}
\* the bridge setup takes one of its three steps
SetupStep == bpc \in {"new", "device", "ipv4"} /\ bpc' /= bpc
\* the setup steps succeed, and the first request is handed the first
\* usable address of the fixed-CIDR range ("192.168.2.1" in scenario A)
SetupThenFirstAddress ==
    /\ SetupStep => (berr' = Nil /\ bpc' /= "failed")
    /\ FirstRequest
         => /\ bip'.err = Nil
            /\ bip'.ip = {FirstUsable(br.Config.FixedCIDR)}
            /\ br.Config = ScenarioA => \A ip \in bip'.ip : String(ip) = "192.168.2.1"

\* C12 as stated: for every configuration whose fixed-CIDR range lies
\* inside the network of the primary address, device setup, primary IPv4
\* setup and fixed-CIDR setup succeed, and the first RequestIP on the range
\* with no preferred address returns its network address + 1.
C12_FirstRequestAnyRange ==
    [][Inside(br.Config) => SetupThenFirstAddress]_vars

\* C12, amended: the same for every such configuration whose range has an
\* address between its network address and its broadcast address (a prefix
\* of at most 30 bits).
C12_FirstRequestReturnsFirstUsable ==
    [][(Inside(br.Config) /\ br.Config.FixedCIDR.Ones <= 30) => SetupThenFirstAddress]_vars

\* C12 witness: scenario A has run and the request returned 192.168.2.1.
C12_Witness ==
    /\ br.Config = ScenarioA
    /\ bpc = "fixed"
    /\ berr = Nil
    /\ nreq = 1
    /\ bip = [op |-> "RequestIP", preferred |-> {}, ip |-> {<<192, 168, 2, 1>>},
              err |-> Nil]
    /\ DefaultBridgeName \in DOMAIN links
    /\ links[DefaultBridgeName].addrv4 = {ScenarioA.AddressIPv4}

\* C13: for every configuration whose fixed-CIDR range is not contained in
\* the network of the primary address, device setup and primary IPv4 setup
\* succeed, fixed-CIDR setup returns an error, and from then on the
\* allocator holds no pool for the range.
C13_BadFixedCIDRRefused ==
    /\ [](bpc = "failed" => CIDRString(br.Config.FixedCIDR) \notin DOMAIN pools)
    /\ [][~Inside(br.Config) =>
            /\ (bpc \in {"new", "device"} /\ bpc' /= bpc)
                 => (berr' = Nil /\ bpc' \in {"device", "ipv4"})
            /\ (bpc = "ipv4" /\ bpc' /= bpc)
                 => /\ berr' /= Nil
                    /\ bpc' = "failed"
                    /\ pools' = pools
                    /\ CIDRString(br.Config.FixedCIDR) \notin DOMAIN pools'
      ]_vars

\* C13 witness: scenario B has run: the device is up with the primary
\* address, the fixed-CIDR setup has failed and the allocator has no pool.
C13_Witness ==
    /\ br.Config = ScenarioB
    /\ bpc = "failed"
    /\ berr = ErrInvalidFixedCIDR
    /\ links[DefaultBridgeName] = [up |-> TRUE, addrv4 |-> {ScenarioB.AddressIPv4}]
    /\ pools = <<>>

\* the labels at which a goroutine is inside a driver hook
HookLabels == {"nn_hook", "nd_hook", "ce_hook", "ed_hook"}
\* the labels between a Lock and its Unlock: the reads and writes of the
\* registry and of an endpoint map
CriticalLabels ==
    {"nn_insert", "nd_check", "nd_nlock", "nd_count", "nd_eps", "nd_rb", "ce_insert",
     "ed_check", "ed_rb"}
\* goroutine t holds the controller's lock or a network's
HoldsLock(t) == t \in ctrlMu \/ \E n \in DOMAIN netMu : t \in netMu[n]

\* C14: a goroutine inside a driver hook holds neither the controller's
\* lock nor a network's; a goroutine that holds a lock stands between the
\* Lock and the Unlock around a registry or endpoint-map access (where one
\* that panicked at the map write has stopped).
C14_NoLockAcrossHook ==
    \A t \in Threads :
        /\ pc[t] \in HookLabels => ~HoldsLock(t)
        /\ HoldsLock(t) => pc[t] \in CriticalLabels \cup {"panicked"}

\* C14 witness: one goroutine is inside d.DeleteNetwork, holding nothing,
\* while another holds the controller's lock.
C14_Witness ==
    \E t1, t2 \in Threads :
        /\ pc[t1] = "nd_hook"
        /\ ~HoldsLock(t1)
        /\ t2 \in ctrlMu
        /\ pc[t2] \in CriticalLabels

\* the id of network n is a key of the registry
InRegistry(n) == MapHas(networks, nets[n].id)
\* the id of endpoint ep is a key of its network's endpoint map
InEndpoints(ep) == MapHas(nets[eps[ep].network].endpoints, eps[ep].id)
\* goroutine t stands at label l after its hook h handed back an error
FailedHook(t, l, h) ==
    /\ pc[t] = l
    /\ hooks[t] /= <<>>
    /\ hooks[t][Len(hooks[t])].hook = h
    /\ HookResult(t) \in DriverErrors

\* C15: network.Delete enters d.DeleteNetwork in the step that removes the
\* network from the registry and releases the controller's lock; while the
\* call is in the hook the network is not registered; the network is put
\* back only by the rollback of a call whose hook has returned an error.
\* The same for endpoint.Delete, the endpoint map, n's lock and
\* d.DeleteEndpoint.
C15_RemovalPrecedesTeardown ==
    /\ [](\A t \in Threads :
            /\ pc[t] = "nd_hook" => (~InRegistry(call[t].n) /\ t \notin ctrlMu)
            /\ pc[t] = "ed_hook" => (~InEndpoints(call[t].ep) /\ t \notin netMu[call[t].n]))
    /\ [][/\ \A t \in Threads :
              /\ (pc[t] /= "nd_hook" /\ pc'[t] = "nd_hook")
                   => /\ pc[t] = "nd_eps"
                      /\ InRegistry(call[t].n)
                      /\ t \in ctrlMu /\ t \notin ctrlMu'
              /\ (pc[t] /= "ed_hook" /\ pc'[t] = "ed_hook")
                   => /\ pc[t] = "ed_check"
                      /\ InEndpoints(call[t].ep)
                      /\ t \in netMu[call[t].n] /\ t \notin netMu'[call[t].n]
          /\ \A n \in DOMAIN nets :
              (~InRegistry(n) /\ InRegistry(n)')
                => \E t \in Threads :
                     /\ FailedHook(t, "nd_rb", "DeleteNetwork")
                     /\ call[t].n = n
                     /\ Steps(t)
          /\ \A ep \in DOMAIN eps :
              (~InEndpoints(ep) /\ InEndpoints(ep)')
                => \E t \in Threads :
                     /\ FailedHook(t, "ed_rb", "DeleteEndpoint")
                     /\ call[t].ep = ep
                     /\ Steps(t)
      ]_vars

\* C15 witness: a network.Delete is inside d.DeleteNetwork with its network
\* out of the registry, and an endpoint.Delete whose hook failed is about to
\* put its endpoint back.
C15_Witness ==
    \E t1, t2 \in Threads :
        /\ pc[t1] = "nd_hook"
        /\ ~InRegistry(call[t1].n)
        /\ ctrlMu = {}
        /\ FailedHook(t2, "ed_rb", "DeleteEndpoint")
        /\ ~InEndpoints(call[t2].ep)

\* the labels at which a goroutine waits for the controller's lock
CtrlLockLabels == {"nn_lock", "nd_lock", "nd_rb_lock"}

\* C16: no call blocks for ever. A goroutine that has left the package, by
\* a return or by a panic, holds no lock (so that every lock waited for is
\* released by a call that is still running), and the locks are taken in
\* the order controller, network: a goroutine waiting for the controller's
\* lock holds no network's lock.
C16_NoLockLeftHeld ==
    \A t \in Threads :
        /\ pc[t] \in {"idle", "panicked"} => ~HoldsLock(t)
        /\ pc[t] \in CtrlLockLabels => \A n \in DOMAIN netMu : t \notin netMu[n]

\* the fixed-CIDR setup succeeds in this step
SetupDone == bpc = "ipv4" /\ bpc' = "fixed"
\* the addresses in use in the pool of the fixed-CIDR range
InUse == pools[CIDRString(br.Config.FixedCIDR)].used

\* C17 as stated: a successful fixed-CIDR setup leaves the range's first
\* usable address marked in use in the allocator, and the RequestIP with no
\* preferred address that follows does not return it.
C17_FirstAddressReserved ==
    [][/\ SetupDone => FirstUsable(br.Config.FixedCIDR) \in InUse'
       /\ FirstRequest => FirstUsable(br.Config.FixedCIDR) \notin bip'.ip
    ]_vars

\* C17, amended: a successful fixed-CIDR setup registers the range with
\* every address free, the first usable one included; an address is marked
\* in use when RequestIP hands it out, and RequestIP hands out no address
\* that is marked in use.
C17_InUseOnlyOnceHandedOut ==
    [][/\ SetupDone
            => (CIDRString(br.Config.FixedCIDR) \in DOMAIN pools' /\ InUse' = {})
       /\ (bpc = "fixed" /\ nreq' = nreq + 1 /\ bip'.op = "RequestIP" /\ bip'.err = Nil)
            => /\ bip'.ip /= {}
               /\ bip'.ip \cap InUse = {}
               /\ InUse' = InUse \cup bip'.ip
    ]_vars

\* C17 witness: after the setup of scenario A a first request was handed
\* 192.168.2.1, which is in use, and the next request was handed 192.168.2.2.
C17_Witness ==
    /\ br.Config = ScenarioA
    /\ bpc = "fixed"
    /\ nreq = 2
    /\ InUse = {<<192, 168, 2, 1>>, <<192, 168, 2, 2>>}
    /\ bip = [op |-> "RequestIP", preferred |-> {}, ip |-> {<<192, 168, 2, 2>>},
              err |-> Nil]

\* a network.Delete on network n is in progress
Deleting(n) == \E t \in Threads : pc[t] \in NDLabels /\ call[t].n = n

DeletingEndpoint(ep) == \E t \in Threads : pc[t] \in EDLabels /\ call[t].ep = ep

\* C19: a network.Delete returns the unknown-network error only for a
\* network some Delete tears down: never for one that, with no Delete on it
\* in progress any more, is registered and was never torn down. Likewise the
\* unknown-endpoint error of endpoint.Delete and the endpoint map.
C19_UnknownMeansGone ==
    \A t \in Threads :
        /\ (ret[t].op = "Network.Delete" /\ ret[t].err = ErrUnknownNetwork)
             => \A n \in ret[t].recv :
                  ~(InRegistry(n) /\ tornDown[nets[n].id] = 0 /\ ~Deleting(n))
        /\ (ret[t].op = "Endpoint.Delete" /\ ret[t].err = ErrUnknownEndpoint)
             => \A ep \in ret[t].recv :
                  ~(InEndpoints(ep) /\ tornDown[eps[ep].id] = 0 /\ ~DeletingEndpoint(ep))

\* C20: no two goroutines are inside d.DeleteNetwork for the same network
\* id at once, nor inside d.DeleteEndpoint for the same endpoint id, and for
\* no id does the driver's Delete hook return success more than once.
C20_TeardownExclusive ==
    /\ \A t1, t2 \in Threads :
         t1 /= t2 =>
           /\ ~(/\ pc[t1] = "nd_hook" /\ pc[t2] = "nd_hook"
                /\ nets[call[t1].n].id = nets[call[t2].n].id)
           /\ ~(/\ pc[t1] = "ed_hook" /\ pc[t2] = "ed_hook"
                /\ eps[call[t1].ep].id = eps[call[t2].ep].id)
    /\ \A id \in IDs : tornDown[id] <= 1

\* C20 witness: while one goroutine is inside d.DeleteEndpoint for an
\* endpoint, a second endpoint.Delete on it has been refused.
C20_Witness ==
    \E t1, t2 \in Threads : \E ep \in ret[t2].recv :
        /\ pc[t1] = "ed_hook"
        /\ call[t1].ep = ep
        /\ ret[t2].op = "Endpoint.Delete"
        /\ ret[t2].err = ErrUnknownEndpoint
        /\ tornDown[eps[ep].id] = 0

====
